---- MODULE Spec2Model ----
(***************************************************************************)
(* Model of the file-naming menu of file_manager (src/src/lib.rs).         *)
(*                                                                         *)
(* Text is a sequence of one-character strings, so that the slicing,       *)
(* splitting, parsing and formatting of the code are computed character by *)
(* character.  A directory of the filesystem is the sequence of its path   *)
(* components; a file is the components of its directory followed by its   *)
(* name.                                                                   *)
(***************************************************************************)
EXTENDS Integers, Sequences, FiniteSets, TLC

\* ------------------------------------------------------------------------
\* Program constants                                        lib.rs 23..32
\* ------------------------------------------------------------------------

DEFAULT_DIRECTORY ==
    <<".", "/", "t", "e", "s", "t", "_", "d", "i", "r", "/">>

DEFAULT_MAP_TYPE == <<"m", "a", "p">>

SEQUENTIAL_FILE_PADDING_LEN == 3

SEQUENTIAL_NAMING_CHAR == "_"

SEQUENTIAL_FILE_MAX_NUMBER == 999

MAX_FILE_NAME_CHARS == 30

\* u16::MAX and usize::MAX of the line parsers (str::parse)
U16_MAX == 65535

\* usize::MAX is beyond the integers of the model checker; the cap stands
\* for it (every text of the model has far fewer digits)
USIZE_CAP == 2147483647

\* ------------------------------------------------------------------------
\* Text primitives (std::str)
\* ------------------------------------------------------------------------

Digits == {"0", "1", "2", "3", "4", "5", "6", "7", "8", "9"}

DigitVal(c) ==
    CASE c = "0" -> 0 [] c = "1" -> 1 [] c = "2" -> 2 [] c = "3" -> 3
      [] c = "4" -> 4 [] c = "5" -> 5 [] c = "6" -> 6 [] c = "7" -> 7
      [] c = "8" -> 8 [] c = "9" -> 9

DigitChar(d) ==
    CASE d = 0 -> "0" [] d = 1 -> "1" [] d = 2 -> "2" [] d = 3 -> "3"
      [] d = 4 -> "4" [] d = 5 -> "5" [] d = 6 -> "6" [] d = 7 -> "7"
      [] d = 8 -> "8" [] d = 9 -> "9"

\* s[a..b) as Rust's &s[a..b]
Slice(s, a, b) == [i \in 1..(b - a) |-> s[a + i]]

\* s.chars().last().unwrap_or_default(): the NUL character for empty text
LastChar(s) == IF Len(s) = 0 THEN "NUL" ELSE s[Len(s)]

\* positions of character c in s
Positions(s, c) == {i \in 1..Len(s) : s[i] = c}

MinOf(S) == CHOOSE x \in S : \A y \in S : x <= y

MaxOf(S) == CHOOSE x \in S : \A y \in S : x >= y

\* s.split_once(c): the text before and after the first c
split_once(s, c) ==
    IF Positions(s, c) = {}
    THEN [some |-> FALSE, head |-> <<>>, tail |-> <<>>]
    ELSE LET p == MinOf(Positions(s, c))
         IN  [some |-> TRUE,
              head |-> Slice(s, 0, p - 1),
              tail |-> Slice(s, p, Len(s))]

\* s.rsplit_once(c): the text before and after the last c
rsplit_once(s, c) ==
    IF Positions(s, c) = {}
    THEN [some |-> FALSE, head |-> <<>>, tail |-> <<>>]
    ELSE LET p == MaxOf(Positions(s, c))
         IN  [some |-> TRUE,
              head |-> Slice(s, 0, p - 1),
              tail |-> Slice(s, p, Len(s))]

\* s.split(c).last(): the text after the last c, all of s when it has none
split_last(s, c) ==
    IF Positions(s, c) = {} THEN s
    ELSE Slice(s, MaxOf(Positions(s, c)), Len(s))

\* s.split(c).next(): the text before the first c, all of s when it has none
split_first(s, c) ==
    IF Positions(s, c) = {} THEN s
    ELSE Slice(s, 0, MinOf(Positions(s, c)) - 1)

RECURSIVE DecimalValue(_)
DecimalValue(s) ==
    IF Len(s) = 0 THEN 0
    ELSE 10 * DecimalValue(Slice(s, 0, Len(s) - 1)) + DigitVal(s[Len(s)])

\* str::parse for an unsigned integer of maximum max: an optional '+', then
\* one or more ASCII digits, the value within range.  ok = FALSE is Err.
ParseUnsigned(s, max) ==
    LET body == IF Len(s) > 0 /\ s[1] = "+" THEN Slice(s, 1, Len(s)) ELSE s
    IN  IF Len(body) = 0 \/ \E i \in 1..Len(body) : body[i] \notin Digits
        THEN [ok |-> FALSE, val |-> 0]
        ELSE IF DecimalValue(body) > max
             THEN [ok |-> FALSE, val |-> 0]
             ELSE [ok |-> TRUE, val |-> DecimalValue(body)]

parse_u16(s) == ParseUnsigned(s, U16_MAX)

parse_usize(s) == ParseUnsigned(s, USIZE_CAP)

RECURSIVE DecimalText(_)
DecimalText(n) ==
    IF n < 10 THEN <<DigitChar(n)>>
    ELSE DecimalText(n \div 10) \o <<DigitChar(n % 10)>>

RECURSIVE Zeros(_)
Zeros(n) == IF n <= 0 THEN <<>> ELSE <<"0">> \o Zeros(n - 1)

\* format!("{:0>3}", cnt): right-aligned in width 3, filled with '0'
PadCount(cnt) ==
    Zeros(SEQUENTIAL_FILE_PADDING_LEN - Len(DecimalText(cnt))) \o DecimalText(cnt)

\* ------------------------------------------------------------------------
\* Sequential naming                                      lib.rs 170..221
\* ------------------------------------------------------------------------

\* format!("{}{:0>3}.{}", base_name, cnt, DEFAULT_MAP_TYPE)
get_sequential_name_from_count(base_name, cnt) ==
    base_name \o PadCount(cnt) \o <<".">> \o DEFAULT_MAP_TYPE

\* Number of characters the code cuts from the end of a name:
\* DEFAULT_MAP_TYPE.len() + 1 + SEQUENTIAL_FILE_PADDING_LEN
SuffixLen == Len(DEFAULT_MAP_TYPE) + 1 + SEQUENTIAL_FILE_PADDING_LEN

\* is_sequential_name with the separator cut as well (off by one)
is_sequential_name_cut_separator(file_name) ==
    LET base_name == split_once(file_name, ".").head
        cnt == split_last(base_name, "_")
    IN  IF Len(cnt) = SEQUENTIAL_FILE_PADDING_LEN /\ parse_u16(cnt).ok
        THEN IF Len(file_name) < SuffixLen + 1
             THEN [tag |-> "panic", val |-> <<>>]
             ELSE [tag |-> "ok",
                   val |-> Slice(file_name, 0, Len(file_name) - SuffixLen - 1)]
        ELSE [tag |-> "ok", val |-> file_name]

\* is_sequential_name: tag "panic" is the usize underflow of
\* file_name.len() - 7 (debug build: overflow check; release build: the
\* wrapped index is out of range of the slice), both a panic.
is_sequential_name(file_name) ==
    LET base_name == split_once(file_name, ".").head
        cnt == split_last(base_name, "_")
    IN  IF Len(cnt) = SEQUENTIAL_FILE_PADDING_LEN /\ parse_u16(cnt).ok
        THEN IF Len(file_name) < SuffixLen
             THEN [tag |-> "panic", val |-> <<>>]
             ELSE [tag |-> "ok",
                   val |-> Slice(file_name, 0, Len(file_name) - SuffixLen)]
        ELSE [tag |-> "ok", val |-> file_name]

\* ------------------------------------------------------------------------
\* Filesystem (std::path, std::fs)
\* ------------------------------------------------------------------------

\* the pieces of s between occurrences of c (str::split)
RECURSIVE split_all(_, _)
split_all(s, c) ==
    IF Positions(s, c) = {} THEN <<s>>
    ELSE LET p == MinOf(Positions(s, c))
         IN  <<Slice(s, 0, p - 1)>> \o split_all(Slice(s, p, Len(s)), c)

\* Lexical normalisation of a list of path pieces: empty pieces and "."
\* are dropped, ".." steps to the parent.
RECURSIVE NormalizePieces(_, _)
NormalizePieces(pieces, acc) ==
    IF Len(pieces) = 0 THEN acc
    ELSE LET h == Head(pieces)
         IN  IF h = <<>> \/ h = <<".">>
             THEN NormalizePieces(Tail(pieces), acc)
             ELSE IF h = <<".", ".">>
                  THEN NormalizePieces(Tail(pieces),
                           IF Len(acc) = 0 THEN acc
                           ELSE Slice(acc, 0, Len(acc) - 1))
                  ELSE NormalizePieces(Tail(pieces), Append(acc, h))

\* Path::new(text): the location a path text denotes, relative to the
\* working directory of the process (<<>>); a text starting with '/' is
\* rooted, marked by a first component "/".
Components(text) ==
    IF Len(text) > 0 /\ text[1] = "/"
    THEN <<<<"/">>>> \o NormalizePieces(split_all(text, "/"), <<>>)
    ELSE NormalizePieces(split_all(text, "/"), <<>>)

\* Path::new(path).join(file_name)
PathJoin(path, file_name) ==
    IF Len(file_name) > 0 /\ file_name[1] = "/"
    THEN Components(file_name)
    ELSE Components(path \o <<"/">> \o file_name)

\* A filesystem value f is [dirs, files]: the directories that exist, each a
\* sequence of components, and the files that exist, each the components of
\* its directory followed by its name.
is_dir(f, loc) == loc \in f.dirs

is_file(f, loc) == loc \in f.files

Parent(loc) == Slice(loc, 0, Len(loc) - 1)

\* Path::extension of a file name: the text after the last '.', none when
\* the name has no '.' or only a leading one.
Extension(name) ==
    IF Positions(name, ".") = {} \/ MaxOf(Positions(name, ".")) = 1
    THEN [some |-> FALSE, ext |-> <<>>]
    ELSE [some |-> TRUE, ext |-> split_last(name, ".")]

\* get_file_list: the names of the files directly inside path whose
\* extension is DEFAULT_MAP_TYPE; empty when path is no directory.  The
\* order of the Vec is the order of read_dir, chosen where a listing is
\* numbered.
get_file_list(f, path) ==
    IF is_dir(f, Components(path))
    THEN {h[Len(h)] : h \in {g \in f.files :
              /\ Len(g) > 0
              /\ Parent(g) = Components(path)
              /\ Extension(g[Len(g)]).some
              /\ Extension(g[Len(g)]).ext = DEFAULT_MAP_TYPE}}
    ELSE {}

\* get_dir_list: the sub-directories directly inside path, each with a
\* trailing '/'.
get_dir_list(f, path) ==
    IF is_dir(f, Components(path))
    THEN {h[Len(h)] \o <<"/">> : h \in {g \in f.dirs :
              Len(g) > 0 /\ Parent(g) = Components(path) /\ g[Len(g)] # <<"/">>}}
    ELSE {}

\* check_dir_exists
check_dir_exists(f, path) == is_dir(f, Components(path))

\* the orders in which read_dir can yield the entries of S
Orders(S) ==
    {f \in [1..Cardinality(S) -> S] :
        \A i, j \in 1..Cardinality(S) : i # j => f[i] # f[j]}

\* ------------------------------------------------------------------------
\* get_sequential_name                                    lib.rs 178..208
\* ------------------------------------------------------------------------

\* A Result<String>: tag "ok" with the value, tag "err" with the error
\* kind, tag "panic" when the thread panics.
Ok(v) == [tag |-> "ok", val |-> v, kind |-> "none"]

Err(k) == [tag |-> "err", val |-> <<>>, kind |-> k]

Panic == [tag |-> "panic", val |-> <<>>, kind |-> "none"]

\* the counter the loop body reads from a matching name:
\* name.split('_').last().split('.').next() parsed as u16
NameCount(name) ==
    parse_u16(split_first(split_last(name, SEQUENTIAL_NAMING_CHAR), "."))

\* the filter of the loop: &entry[0..entry.len() - 7] == base_name
MatchesBase(entry, base_name) ==
    Slice(entry, 0, Len(entry) - SuffixLen) = base_name

\* the comparison with the maximum, with <= replaced by < (off by one)
WithinMaxNumber_strict(cnt_max) == cnt_max < SEQUENTIAL_FILE_MAX_NUMBER

\* cnt_max <= SEQUENTIAL_FILE_MAX_NUMBER
WithinMaxNumber(cnt_max) == cnt_max <= SEQUENTIAL_FILE_MAX_NUMBER

\* The outcomes of get_sequential_name(current_path, base_name, next) on
\* filesystem f; read_dir of an existing directory may fail.  The filter slices
\* every entry of the listing, so one entry shorter than 7 characters
\* panics (usize underflow).  cnt_max += 1 at u16::MAX panics with
\* overflow checks and wraps to 0 without them: both outcomes.
get_sequential_name(f, current_path, base_name, next) ==
    LET file_list == get_file_list(f, current_path)
        matching  == {e \in file_list : MatchesBase(e, base_name)}
        counts    == {NameCount(n).val : n \in {m \in matching : NameCount(m).ok}}
        found     == counts # {}
        cnt_max   == IF found THEN MaxOf(counts) ELSE 0
        result(c) == IF WithinMaxNumber(c)
                     THEN Ok(get_sequential_name_from_count(base_name, c))
                     ELSE Err("InvalidSequentialName")
    IN  (IF is_dir(f, Components(current_path)) THEN {Err("Io")} ELSE {})
        \cup
        (IF \E e \in file_list : Len(e) < SuffixLen
         THEN {Panic}
         ELSE IF next /\ found
              THEN IF cnt_max = U16_MAX
                   THEN {Panic, result(0)}
                   ELSE {result(cnt_max + 1)}
              ELSE {result(cnt_max)})

\* ------------------------------------------------------------------------
\* Filesystem mutations (std::fs); each may fail with an io::Error
\* ------------------------------------------------------------------------

\* the locations loc[1..k], k = 1..Len(loc)
Prefixes(loc) == {Slice(loc, 0, k) : k \in 1..Len(loc)}

\* a create_dir_all that reports success and creates nothing
create_dir_all_nothing(f, path) == [ok |-> TRUE, fs |-> f]

\* fs::create_dir_all: fails when a component of the path is a file
create_dir_all(f, path) ==
    IF Prefixes(Components(path)) \cap f.files # {}
    THEN [ok |-> FALSE, fs |-> f]
    ELSE [ok |-> TRUE,
          fs |-> [f EXCEPT !.dirs = @ \cup Prefixes(Components(path))]]

\* fs::remove_file
remove_file(f, loc) ==
    IF is_file(f, loc)
    THEN [ok |-> TRUE, fs |-> [f EXCEPT !.files = @ \ {loc}]]
    ELSE [ok |-> FALSE, fs |-> f]

\* fs::rename(from, to): to is replaced when it is a file; fails when from
\* does not exist, when to is a directory or when the directory of to does
\* not exist
rename(f, from, to) ==
    IF /\ is_file(f, from)
       /\ Len(to) > 0
       /\ ~is_dir(f, to)
       /\ is_dir(f, Parent(to))
    THEN [ok |-> TRUE, fs |-> [f EXCEPT !.files = (@ \ {from}) \cup {to}]]
    ELSE [ok |-> FALSE, fs |-> f]

\* fs::write(file_path, ...) of create_test_file: creates or truncates the
\* file; fails (the failure is printed) when the path is a directory or
\* its directory does not exist
fs_write(f, path) ==
    LET loc == Components(path)
    IN  IF Len(loc) > 0 /\ ~is_dir(f, loc) /\ is_dir(f, Parent(loc))
        THEN [f EXCEPT !.files = @ \cup {loc}]
        ELSE f

\* ------------------------------------------------------------------------
\* Menus                                                  lib.rs 250..448
\* ------------------------------------------------------------------------

Some(v) == [some |-> TRUE, val |-> v]

None == [some |-> FALSE, val |-> <<>>]

\* print_option_list(opts, _, start): the number printed before each option
print_option_list(opts, start) ==
    [cnt \in 1..Len(opts) |-> [num |-> (cnt - 1) + start, opt |-> opts[cnt]]]

\* print_menu_options: the numbered entries of the three listings
print_menu_options(dirs, sub_paths, files) ==
    [paths |-> print_option_list(dirs, 0),
     subs  |-> print_option_list(sub_paths, Len(dirs)),
     files |-> print_option_list(files, Len(sub_paths) + Len(dirs))]

\* check_file_name_len with the separator and counter not counted
check_file_name_len_lenient(name) ==
    IF Len(name) > MAX_FILE_NAME_CHARS + SuffixLen - Len(DEFAULT_MAP_TYPE)
    THEN Err("InvalidNameTooLong") ELSE Ok(name)

\* check_file_name_len
check_file_name_len(name) ==
    IF Len(name) > MAX_FILE_NAME_CHARS
    THEN Err("InvalidNameTooLong") ELSE Ok(name)

\* check_if_path_or_file
check_if_path_or_file(line) ==
    IF Len(line) = 0
    THEN [path |-> None, file |-> None]
    ELSE IF LastChar(line) = "/"
         THEN [path |-> Some(line), file |-> None]
         ELSE LET r == rsplit_once(line, "/")
              IN  IF r.some
                  THEN [path |-> Some(r.head \o <<"/">>), file |-> Some(r.tail)]
                  ELSE [path |-> None, file |-> Some(line)]

\* parse_menu_file with the files numbered from the end of the default
\* directories (the sub-directories not counted)
parse_menu_file_overlap(current_path, line, dirs, sub_paths, files) ==
    LET n == parse_usize(line)
        num == n.val
    IN  IF Len(line) = 0
        THEN [tag |-> "ok", path |-> None, file |-> None]
        ELSE IF n.ok
             THEN IF num < Len(dirs)
                  THEN [tag |-> "ok",
                        path |-> Some(IF LastChar(dirs[num + 1]) = "/"
                                      THEN dirs[num + 1]
                                      ELSE dirs[num + 1] \o <<"/">>),
                        file |-> None]
                  ELSE IF num - Len(dirs) < Len(sub_paths)
                       THEN [tag |-> "ok",
                             path |-> Some(current_path
                                           \o sub_paths[num - Len(dirs) + 1]),
                             file |-> None]
                       ELSE IF num - Len(dirs) < Len(files)
                            THEN LET c == is_sequential_name(
                                              files[num - Len(dirs) + 1])
                                 IN  [tag |-> c.tag, path |-> None,
                                      file |-> Some(c.val)]
                            ELSE [tag |-> "ok", path |-> None, file |-> None]
             ELSE [tag |-> "ok",
                   path |-> check_if_path_or_file(line).path,
                   file |-> check_if_path_or_file(line).file]

\* parse_menu_file: tag "panic" when is_sequential_name panics.  Indexes of
\* the Vecs are 0-based in the code, 1-based here.
parse_menu_file(current_path, line, dirs, sub_paths, files) ==
    LET n == parse_usize(line)
        num == n.val
    IN  IF Len(line) = 0
        THEN [tag |-> "ok", path |-> None, file |-> None]
        ELSE IF n.ok
             THEN IF num < Len(dirs)
                  THEN [tag |-> "ok",
                        path |-> Some(IF LastChar(dirs[num + 1]) = "/"
                                      THEN dirs[num + 1]
                                      ELSE dirs[num + 1] \o <<"/">>),
                        file |-> None]
                  ELSE IF num - Len(dirs) < Len(sub_paths)
                       THEN [tag |-> "ok",
                             path |-> Some(current_path
                                           \o sub_paths[num - Len(dirs) + 1]),
                             file |-> None]
                       ELSE IF num - Len(dirs) - Len(sub_paths) < Len(files)
                            THEN LET c == is_sequential_name(
                                    files[num - Len(dirs) - Len(sub_paths) + 1])
                                 IN  [tag |-> c.tag, path |-> None,
                                      file |-> Some(c.val)]
                            ELSE [tag |-> "ok", path |-> None, file |-> None]
             ELSE [tag |-> "ok",
                   path |-> check_if_path_or_file(line).path,
                   file |-> check_if_path_or_file(line).file]

\* the pieces of a split that are not empty, joined with c
RECURSIVE JoinNonEmpty(_, _)
JoinNonEmpty(pieces, c) ==
    IF Len(pieces) = 0 THEN <<>>
    ELSE IF Head(pieces) = <<>> THEN JoinNonEmpty(Tail(pieces), c)
         ELSE LET rest == JoinNonEmpty(Tail(pieces), c)
              IN  IF rest = <<>> THEN Head(pieces)
                  ELSE Head(pieces) \o <<c>> \o rest

\* line.split(' ').filter(|s| !s.is_empty()).collect().join("_")
NormalizeLine(line) == JoinNonEmpty(split_all(line, " "), "_")

\* str::trim for the blanks of the model
RECURSIVE trim(_)
trim(s) ==
    IF Len(s) > 0 /\ s[1] = " " THEN trim(Tail(s))
    ELSE IF Len(s) > 0 /\ s[Len(s)] = " " THEN trim(Slice(s, 0, Len(s) - 1))
         ELSE s

\* the extension check with a foreign extension accepted as it is
CheckExtension_any(file) ==
    LET so == split_once(file, ".")
    IN  IF so.some
        THEN [accept |-> TRUE, file |-> file, seed |-> <<>>]
        ELSE [accept |-> TRUE,
              file |-> file \o <<".">> \o DEFAULT_MAP_TYPE, seed |-> <<>>]

\* The extension check of file_name_menu (lines 534..551): accept the name,
\* with the extension appended when it has none, or reject it and seed the
\* next prompt.
CheckExtension(file) ==
    LET so == split_once(file, ".")
    IN  IF so.some
        THEN IF so.tail = DEFAULT_MAP_TYPE
             THEN [accept |-> TRUE, file |-> file, seed |-> <<>>]
             ELSE [accept |-> FALSE, file |-> <<>>,
                   seed |-> so.head \o <<".">> \o DEFAULT_MAP_TYPE]
        ELSE [accept |-> TRUE,
              file |-> file \o <<".">> \o DEFAULT_MAP_TYPE, seed |-> <<>>]

\* ------------------------------------------------------------------------
\* State
\* ------------------------------------------------------------------------

VARIABLES
    pc,           \* position: Start, ScanDir, ReadLine, ConfirmCreate,
                  \* Collision, Done, Written, Crashed (Fn: function harness)
    isSaving,     \* is_saving
    defaultDirs,  \* default_dirs, the argument of run_file_naming_menu
    paths,        \* the default directory list
    currentPath,  \* current_path
    initS,        \* init_s, the seed of the next prompt
    fileList,     \* file_list, the snapshot of the last scan
    subPaths,     \* sub_paths, the snapshot of the last scan
    printed,      \* the numbered entries print_menu_options printed last
    pendPath,     \* path, while ask_yes_no runs
    pendFile,     \* file, while ask_yes_no or the collision dialog runs
    pathUpdated,  \* path_updated
    outcome,      \* the Result of file_name_menu once it has returned
    fs,           \* the filesystem
    lastIn,       \* history: the input the last read yielded (none once
                  \* the directory is scanned again)
    checked,      \* history: the last call of check_file_exists
    fn            \* the function harness (SpecFn)

vars == <<pc, isSaving, defaultDirs, paths, currentPath, initS, fileList,
          subPaths, printed, pendPath, pendFile, pathUpdated, outcome, fs,
          lastIn, checked, fn>>

NoOutcome == [kind |-> "none", path |-> <<>>, file |-> <<>>]

OkOutcome(path, file) == [kind |-> "Ok", path |-> path, file |-> file]

ErrOutcome(k) == [kind |-> k, path |-> <<>>, file |-> <<>>]

NoInput == [kind |-> "none", text |-> <<>>]

NoCheck == [called |-> FALSE, path |-> <<>>, file |-> <<>>, existed |-> FALSE]

NoPrinted == [paths |-> <<>>, subs |-> <<>>, files |-> <<>>]

NoRes == [tag |-> "none", val |-> <<>>, kind |-> "none"]

NoFn == [op |-> "none", base |-> <<>>, cnt |-> 0, name |-> <<>>,
         next |-> FALSE, files |-> {}, res |-> NoRes]

\* init_default_paths
init_default_paths(dirs) ==
    LET ps == IF dirs.some
              THEN IF Len(dirs.val) = 0 THEN <<DEFAULT_DIRECTORY>> ELSE dirs.val
              ELSE <<DEFAULT_DIRECTORY>>
    IN  [default |-> ps[1], paths |-> ps]

\* run_file_naming_menu: Some(path) of Ok, None of every Err
run_file_naming_menu_result(o) ==
    IF o.kind = "Ok" THEN Some(o.path) ELSE None

\* ------------------------------------------------------------------------
\* The texts, filesystems and inputs the model ranges over
\* ------------------------------------------------------------------------

\* n times character c
Rep(c, n) == [i \in 1..n |-> c]

DotMap == <<".">> \o DEFAULT_MAP_TYPE

T_run == <<"r", "u", "n">>

T_notes == <<"n", "o", "t", "e", "s">>

N_run_(ddd) == T_run \o <<"_">> \o ddd \o DotMap

N_run000 == N_run_(<<"0", "0", "0">>)

N_run001 == N_run_(<<"0", "0", "1">>)

N_run998 == N_run_(<<"9", "9", "8">>)

N_run999 == N_run_(<<"9", "9", "9">>)

N_notes == T_notes \o DotMap

N_notesTxt == T_notes \o <<".", "t", "x", "t">>

\* a name shorter than SuffixLen
N_a == <<"a">> \o DotMap

\* a name whose stem is three digits
N_123 == <<"1", "2", "3">> \o DotMap

\* the length of the longest stem that check_file_name_len accepts with
\* the extension appended: MAX_FILE_NAME_CHARS - (1 + DEFAULT_MAP_TYPE.len())
LongStemLen == MAX_FILE_NAME_CHARS - 1 - Len(DEFAULT_MAP_TYPE)

\* a name of exactly MAX_FILE_NAME_CHARS characters
N_long == Rep("a", LongStemLen) \o DotMap

\* the locations of the directories of the model
L_cwd == <<>>

L_h == <<<<"h">>>>

L_w == <<<<"w">>>>

L_hs == <<<<"h">>, <<"s">>>>

L_test == <<<<"t", "e", "s", "t", "_", "d", "i", "r">>>>

In(loc, name) == Append(loc, name)

\* a directory tree with sequential files up to the maximum counter
FsSequential ==
    [dirs  |-> {L_cwd, L_h, L_w, L_hs},
     files |-> {In(L_h, N_run000), In(L_h, N_run001), In(L_h, N_notes),
                In(L_h, N_notesTxt), In(L_w, N_run999), In(L_hs, N_run998)}]

\* a directory holding a name shorter than SuffixLen
FsShort ==
    [dirs  |-> {L_cwd, L_h},
     files |-> {In(L_h, N_a), In(L_h, N_notes)}]

\* a directory holding a name of maximum length and a three-digit stem
FsLong ==
    [dirs  |-> {L_cwd, L_h, L_w},
     files |-> {In(L_h, N_long), In(L_h, N_123), In(L_w, N_notes)}]

\* nothing but the working directory
FsEmpty == [dirs |-> {L_cwd}, files |-> {}]

\* the built-in default directory, with one sequential file and the file
\* of its stem
FsDefault ==
    [dirs  |-> {L_cwd, L_test},
     files |-> {In(L_test, N_run000), In(L_test, T_run \o DotMap)}]


P_h == <<"h", "/">>

P_w == <<"w", "/">>

\* The filesystems a session starts on, each with a default_dirs argument:
\* none, an empty list, directories with the trailing '/', a first
\* directory without it
InitConfigs ==
    {[fs |-> FsSequential, dirs |-> Some(<<P_h, P_w>>)],
     [fs |-> FsSequential, dirs |-> Some(<<<<"h">>, P_w>>)],
     [fs |-> FsShort,      dirs |-> Some(<<P_h, P_w>>)],
     [fs |-> FsLong,       dirs |-> Some(<<P_h, P_w>>)],
     [fs |-> FsEmpty,      dirs |-> None],
     [fs |-> FsDefault,    dirs |-> None],
     [fs |-> FsDefault,    dirs |-> Some(<<>>)]}

\* the lines typed at the main prompt
Lines ==
    {<<>>, <<"0">>, <<"1">>, <<"2">>, <<"3">>, <<"4">>, <<"5">>, <<"6">>,
     T_run \o <<"_">>, T_notes, N_notes, N_notesTxt, N_run000,
     <<"m", "y", " ", " ", "r", "u", "n">>,
     P_w, <<"h", "/", "s", "/">>, <<"n", "/">>,
     P_w \o T_run \o <<"_">>, <<"n", "/">> \o T_notes,
     N_long, Rep("a", LongStemLen + 1), N_123}

\* the lines typed at the confirmation prompt
ConfirmLines ==
    {<<"y">>, <<"y", "e", "s">>, <<"n">>, <<"n", "o">>, <<" ", "y", " ">>,
     <<"x">>, <<>>}

\* the lines typed at the collision dialog
CollisionLines ==
    {<<"r">>, <<"m">>, <<"c">>, <<"n">>, <<"d">>, <<" ", "r">>, <<"x">>, <<>>}

\* what a read of the line editor yields besides a line: CTRL+C, CTRL+D,
\* another ReadlineError
Signals == {"Interrupted", "Eof", "Error"}

LineIn(t) == [kind |-> "line", text |-> t]

SignalIn(sg) == [kind |-> sg, text |-> <<>>]

\* ------------------------------------------------------------------------
\* check_file_exists                                      lib.rs 277..344
\* ------------------------------------------------------------------------

\* the entry with the dialog offered for a load as well
check_file_exists_entry_any_mode(f, path, file_name, is_saving) ==
    IF is_file(f, PathJoin(path, file_name)) THEN "dialog" ELSE "ok"

\* Where check_file_exists goes on entry: the dialog (lines 279..338),
\* Err(NeedNewName) (lines 339..342) or Ok(file_name) (line 343).
check_file_exists_entry(f, path, file_name, is_saving) ==
    LET full_path == PathJoin(path, file_name)
    IN  IF is_file(f, full_path) /\ is_saving THEN "dialog"
        ELSE IF ~is_file(f, full_path) /\ ~is_saving THEN "need_new_name"
             ELSE "ok"

\* A step of the dialog: what check_file_exists returns for one read, with
\* the filesystem it leaves; tag "again" when the loop reads another line.
Again == [tag |-> "again", val |-> <<>>, kind |-> "none"]

With(res, f) == [res |-> res, fs |-> f]

\* choice 'r' that replaces without removing the existing file
ChoiceReplace_keep(f, path, file_name) == {With(Ok(file_name), f)}

\* choice 'r' (lines 296..300); remove_file may fail
ChoiceReplace(f, path, file_name) ==
    LET rm == remove_file(f, PathJoin(path, file_name))
    IN  {With(Err("Io"), f)}
        \cup (IF rm.ok THEN {With(Ok(file_name), rm.fs)} ELSE {})

\* the sequential base of choices 'm' and 'c': the text before the first
\* '.', then '_'
SequentialBaseOf(file_name) ==
    split_once(file_name, ".").head \o <<SEQUENTIAL_NAMING_CHAR>>

\* choice 'm' (lines 301..310); the target of the rename is the text
\* format!("{}{}", path, new_name); rename may fail
ChoiceMove(f, path, file_name) ==
    IF ~split_once(file_name, ".").some
    THEN {With(Err("UnknownFileType"), f)}
    ELSE UNION {IF sq.tag # "ok" THEN {With(sq, f)}
                ELSE LET mv == rename(f, PathJoin(path, file_name),
                                      Components(path \o sq.val))
                     IN  {With(Err("Io"), f)}
                         \cup (IF mv.ok THEN {With(Ok(file_name), mv.fs)}
                               ELSE {}) :
                sq \in get_sequential_name(f, path,
                           SequentialBaseOf(file_name), TRUE)}

\* choice 'c' that renames the existing file as choice 'm' does
ChoiceCopy_moves(f, path, file_name) == ChoiceMove(f, path, file_name)

\* choice 'c' (lines 311..317)
ChoiceCopy(f, path, file_name) ==
    IF ~split_once(file_name, ".").some
    THEN {With(Err("UnknownFileType"), f)}
    ELSE {With(sq, f) :
          sq \in get_sequential_name(f, path, SequentialBaseOf(file_name),
                                     TRUE)}

\* choice 'd' (lines 321..325); remove_file may fail
ChoiceDelete(f, path, file_name) ==
    LET rm == remove_file(f, PathJoin(path, file_name))
    IN  {With(Err("Io"), f)}
        \cup (IF rm.ok THEN {With(Err("FileDeletion"), rm.fs)} ELSE {})

\* the dialog with CTRL+D handled like CTRL+C
check_file_exists_dialog_eof_cancels(f, path, file_name, in) ==
    IF in.kind = "line"
    THEN LET t == trim(in.text)
         IN  IF t = <<"r">> THEN ChoiceReplace(f, path, file_name)
             ELSE IF t = <<"m">> THEN ChoiceMove(f, path, file_name)
             ELSE IF t = <<"c">> THEN ChoiceCopy(f, path, file_name)
             ELSE IF t = <<"n">> THEN {With(Err("NeedNewName"), f)}
             ELSE IF t = <<"d">> THEN ChoiceDelete(f, path, file_name)
             ELSE {With(Again, f)}
    ELSE IF in.kind \in {"Interrupted", "Eof"}
         THEN {With(Err("NeedNewName"), f)}
         ELSE {With(Again, f)}

\* the match of the dialog loop (lines 294..337)
check_file_exists_dialog(f, path, file_name, in) ==
    IF in.kind = "line"
    THEN LET t == trim(in.text)
         IN  IF t = <<"r">> THEN ChoiceReplace(f, path, file_name)
             ELSE IF t = <<"m">> THEN ChoiceMove(f, path, file_name)
             ELSE IF t = <<"c">> THEN ChoiceCopy(f, path, file_name)
             ELSE IF t = <<"n">> THEN {With(Err("NeedNewName"), f)}
             ELSE IF t = <<"d">> THEN ChoiceDelete(f, path, file_name)
             ELSE {With(Again, f)}
    ELSE IF in.kind = "Interrupted" THEN {With(Err("NeedNewName"), f)}
         ELSE IF in.kind = "Eof" THEN {With(Err("ManuallyTerminated"), f)}
              ELSE {With(Again, f)}

\* ------------------------------------------------------------------------
\* ask_yes_no                                             lib.rs 356..385
\* ------------------------------------------------------------------------

\* an ask_yes_no that takes every line other than y and yes as a decline
ask_yes_no_once(in) ==
    IF in.kind = "line"
    THEN LET t == trim(in.text)
         IN  IF t = <<"y">> \/ t = <<"y", "e", "s">> THEN Ok(<<>>)
             ELSE Err("NeedNewName")
    ELSE IF in.kind = "Eof" THEN Err("ManuallyTerminated")
         ELSE Err("NeedNewName")

ask_yes_no(in) ==
    IF in.kind = "line"
    THEN LET t == trim(in.text)
         IN  IF t = <<"y">> \/ t = <<"y", "e", "s">> THEN Ok(<<>>)
             ELSE IF t = <<"n">> \/ t = <<"n", "o">> THEN Err("NeedNewName")
                  ELSE Again
    ELSE IF in.kind = "Interrupted" THEN Err("NeedNewName")
         ELSE IF in.kind = "Eof" THEN Err("ManuallyTerminated")
              ELSE Err("NeedNewName")

\* ------------------------------------------------------------------------
\* file_name_menu                                         lib.rs 458..587
\* ------------------------------------------------------------------------

\* What a step of the menu leaves: the next position, the seed, the
\* outcome, the name under check and the record of the check.
Step(p, seed, o, file, chk) ==
    [pc |-> p, initS |-> seed, outcome |-> o, pendFile |-> file,
     checked |-> chk]

\* continue 'dir_loop when the path was updated, else continue 'file_loop
Loop(path_updated) == IF path_updated THEN "ScanDir" ELSE "ReadLine"

Checked(path, file, f) ==
    [called |-> TRUE, path |-> path, file |-> file,
     existed |-> is_file(f, PathJoin(path, file))]

\* the match on the result with Err(NeedNewName) returned like any error
MenuAfterCheck_propagate(res, cp, path_updated, seed, chk) ==
    IF res.tag = "ok"
    THEN Step("Done", seed, OkOutcome(cp \o res.val, res.val), None, chk)
    ELSE IF res.tag = "err"
         THEN Step("Done", seed, ErrOutcome(res.kind), None, chk)
         ELSE Step("Crashed", seed, NoOutcome, None, chk)

\* the match on the result with Err(NeedNewName) always continuing
\* 'file_loop
MenuAfterCheck_inner(res, cp, path_updated, seed, chk) ==
    IF res.tag = "ok"
    THEN Step("Done", seed, OkOutcome(cp \o res.val, res.val), None, chk)
    ELSE IF res.tag = "err" /\ res.kind = "NeedNewName"
         THEN Step("ReadLine", <<>>, NoOutcome, None, chk)
         ELSE IF res.tag = "err"
              THEN Step("Done", seed, ErrOutcome(res.kind), None, chk)
              ELSE Step("Crashed", seed, NoOutcome, None, chk)

\* The match on the result of check_file_exists (lines 555..568)
MenuAfterCheck(res, cp, path_updated, seed, chk) ==
    IF res.tag = "ok"
    THEN Step("Done", seed, OkOutcome(cp \o res.val, res.val), None, chk)
    ELSE IF res.tag = "err" /\ res.kind = "NeedNewName"
         THEN Step(Loop(path_updated), <<>>, NoOutcome, None, chk)
         ELSE IF res.tag = "err"
              THEN Step("Done", seed, ErrOutcome(res.kind), None, chk)
              ELSE Step("Crashed", seed, NoOutcome, None, chk)

\* Lines 552..568 for a name that passed the extension check
\* (the line editor of the dialog may fail to start: Error::Cmd)
CheckAndResolve(f, cp, file, saving, path_updated, seed) ==
    LET chk   == Checked(cp, file, f)
        entry == check_file_exists_entry(f, cp, file, saving)
    IN  IF check_file_name_len(file).tag = "err"
        THEN {Step("Done", seed, ErrOutcome("InvalidNameTooLong"), None,
                   NoCheck)}
        ELSE IF entry = "dialog"
             THEN {Step("Done", seed, ErrOutcome("Cmd"), None, chk),
                   Step("Collision", seed, NoOutcome, Some(file), chk)}
             ELSE IF entry = "need_new_name"
                  THEN {MenuAfterCheck(Err("NeedNewName"), cp, path_updated,
                                       seed, chk)}
                  ELSE {MenuAfterCheck(Ok(file), cp, path_updated, seed, chk)}

\* Lines 527..573: the rest of the handler of a line once the directory
\* is settled; file is the Option the parser produced.
ProcessFile(f, cp, file, saving, path_updated, seed) ==
    IF ~file.some
    THEN {Step(Loop(path_updated), <<>>, NoOutcome, None, NoCheck)}
    ELSE LET seqs == IF LastChar(file.val) = SEQUENTIAL_NAMING_CHAR
                     THEN get_sequential_name(f, cp, file.val, saving)
                     ELSE {Ok(file.val)}
         IN  UNION {IF sq.tag = "panic"
              THEN {Step("Crashed", seed, NoOutcome, None, NoCheck)}
              ELSE IF sq.tag = "err"
                   THEN {Step("Done", seed, ErrOutcome(sq.kind), None,
                              NoCheck)}
                   ELSE LET ce == CheckExtension(sq.val)
                        IN  IF ~ce.accept
                            THEN {Step(Loop(path_updated), ce.seed, NoOutcome,
                                       None, NoCheck)}
                            ELSE CheckAndResolve(f, cp, ce.file, saving,
                                                 path_updated, seed) :
              sq \in seqs}

Init ==
    /\ pc = "Start"
    /\ isSaving \in BOOLEAN
    /\ \E c \in InitConfigs : fs = c.fs /\ defaultDirs = c.dirs
    /\ paths = <<>>
    /\ currentPath = <<>>
    /\ initS = <<>>
    /\ fileList = <<>>
    /\ subPaths = <<>>
    /\ printed = NoPrinted
    /\ pendPath = <<>>
    /\ pendFile = None
    /\ pathUpdated = FALSE
    /\ outcome = NoOutcome
    /\ lastIn = NoInput
    /\ checked = NoCheck
    /\ fn = NoFn

\* the start of a session that creates the first default directory
Start_creating ==
    /\ pc = "Start"
    /\ lastIn' = NoInput
    /\ paths' = init_default_paths(defaultDirs).paths
    /\ currentPath' = init_default_paths(defaultDirs).default
    /\ fs' = create_dir_all(fs, init_default_paths(defaultDirs).default).fs
    /\ \/ pc' = "Done" /\ outcome' = ErrOutcome("Cmd")
       \/ pc' = "ScanDir" /\ outcome' = outcome
    /\ UNCHANGED <<isSaving, defaultDirs, initS, fileList, subPaths, printed,
                   pendPath, pendFile, pathUpdated, checked, fn>>

\* run_save_file_menu_with_errors up to the first scan (lines 593..595,
\* 458..463): the default paths, the line editor
Start ==
    /\ pc = "Start"
    /\ lastIn' = NoInput
    /\ paths' = init_default_paths(defaultDirs).paths
    /\ currentPath' = init_default_paths(defaultDirs).default
    /\ \/ pc' = "Done" /\ outcome' = ErrOutcome("Cmd")
       \/ pc' = "ScanDir" /\ outcome' = outcome
    /\ UNCHANGED <<isSaving, defaultDirs, initS, fileList, subPaths, printed,
                   pendPath, pendFile, pathUpdated, fs, checked, fn>>

\* The head of 'dir_loop (lines 465..477): scan, print, reset the history
ScanDir ==
    /\ pc = "ScanDir"
    /\ lastIn' = NoInput
    /\ \/ /\ check_dir_exists(fs, currentPath)
          /\ pc' = "Done"
          /\ outcome' = ErrOutcome("Io")
          /\ UNCHANGED <<fileList, subPaths, printed>>
       \/ /\ pc' = "ReadLine"
          /\ outcome' = outcome
          /\ fileList' \in Orders(get_file_list(fs, currentPath))
          /\ subPaths' \in Orders(get_dir_list(fs, currentPath))
          /\ printed' = print_menu_options(paths, subPaths', fileList')
    /\ UNCHANGED <<isSaving, defaultDirs, paths, currentPath, initS, pendPath,
                   pendFile, pathUpdated, fs, checked, fn>>

\* a step result st put into the next state
Leave(st) ==
    /\ pc' = st.pc
    /\ initS' = st.initS
    /\ outcome' = st.outcome
    /\ pendFile' = st.pendFile
    /\ checked' = st.checked

\* The inputs a read of the main prompt can yield: a line (the seed as it
\* is, or a typed line), CTRL+C, CTRL+D, another error
MainInputs ==
    {LineIn(t) : t \in Lines \cup {initS}}
    \cup {SignalIn(sg) : sg \in Signals}

\* One read of 'file_loop and the handling of what was read, up to the next
\* read or the return (lines 480..584)
ReadLine ==
    /\ pc = "ReadLine"
    /\ \E in \in MainInputs :
         /\ lastIn' = in
         /\ IF in.kind = "line"
            THEN LET line == NormalizeLine(in.text)
                     pr   == parse_menu_file(currentPath, line, paths,
                                             subPaths, fileList)
                     path == IF pr.path.some THEN pr.path.val ELSE currentPath
                 IN  IF pr.tag = "panic"
                     THEN /\ Leave(Step("Crashed", initS, NoOutcome, None,
                                        NoCheck))
                          /\ UNCHANGED <<currentPath, pendPath, pathUpdated>>
                     ELSE IF ~check_dir_exists(fs, path)
                          THEN /\ pathUpdated' = FALSE
                               /\ currentPath' = currentPath
                               /\ IF isSaving
                                  THEN \/ /\ Leave(Step("Done", initS,
                                                 ErrOutcome("Cmd"), None,
                                                 NoCheck))
                                          /\ pendPath' = pendPath
                                       \/ /\ Leave(Step("ConfirmCreate",
                                                 initS, NoOutcome, pr.file,
                                                 NoCheck))
                                          /\ pendPath' = path
                                  ELSE /\ Leave(Step("ReadLine", initS,
                                            NoOutcome, None, NoCheck))
                                       /\ pendPath' = pendPath
                          ELSE /\ currentPath' = path
                               /\ pathUpdated' = TRUE
                               /\ pendPath' = pendPath
                               /\ \E st \in ProcessFile(fs, path, pr.file,
                                      isSaving, TRUE, initS) :
                                    Leave(st)
            ELSE /\ UNCHANGED <<currentPath, pendPath, pathUpdated>>
                 /\ IF in.kind = "Interrupted"
                    THEN Leave(Step("ReadLine", <<>>, NoOutcome, None, NoCheck))
                    ELSE IF in.kind = "Eof"
                         THEN Leave(Step("Done", initS,
                                  ErrOutcome("ManuallyTerminated"), None,
                                  NoCheck))
                         ELSE Leave(Step("ReadLine", initS, NoOutcome, None,
                                         NoCheck))
    /\ UNCHANGED <<isSaving, defaultDirs, paths, fileList, subPaths, printed,
                   fs, fn>>

ConfirmInputs ==
    {LineIn(t) : t \in ConfirmLines}
    \cup {SignalIn(sg) : sg \in Signals}

\* One read of ask_yes_no and what file_name_menu does with its result
\* (lines 506..518, then 527..573 when the directory is created)
ConfirmCreate ==
    /\ pc = "ConfirmCreate"
    /\ \E in \in ConfirmInputs :
         /\ lastIn' = in
         /\ LET r == ask_yes_no(in)
                mk == create_dir_all(fs, pendPath)
            IN  IF r.tag = "again"
                THEN UNCHANGED <<pc, initS, outcome, pendFile, checked,
                                 currentPath, pendPath, pathUpdated, fs>>
                ELSE IF r.tag = "err" /\ r.kind = "NeedNewName"
                     THEN /\ Leave(Step("ReadLine", initS, NoOutcome, None,
                                        NoCheck))
                          /\ UNCHANGED <<currentPath, pendPath, pathUpdated,
                                         fs>>
                     ELSE IF r.tag = "err"
                          THEN /\ Leave(Step("Done", initS,
                                        ErrOutcome(r.kind), None, NoCheck))
                               /\ UNCHANGED <<currentPath, pendPath,
                                              pathUpdated, fs>>
                          ELSE /\ currentPath' = pendPath
                               /\ pendPath' = pendPath
                               /\ \/ /\ Leave(Step("Done", initS,
                                            ErrOutcome("Io"), None, NoCheck))
                                     /\ UNCHANGED <<pathUpdated, fs>>
                                  \/ /\ mk.ok
                                     /\ fs' = mk.fs
                                     /\ pathUpdated' = TRUE
                                     /\ \E st \in ProcessFile(mk.fs,
                                            pendPath, pendFile, isSaving,
                                            TRUE, initS) :
                                          Leave(st)
    /\ UNCHANGED <<isSaving, defaultDirs, paths, fileList, subPaths, printed,
                   fn>>

CollisionInputs ==
    {LineIn(t) : t \in CollisionLines}
    \cup {SignalIn(sg) : sg \in Signals}

\* One read of the dialog of check_file_exists and what file_name_menu does
\* with its result (lines 294..337, then 555..568)
Collision ==
    /\ pc = "Collision"
    /\ \E in \in CollisionInputs :
         /\ lastIn' = in
         /\ \E r \in check_file_exists_dialog(fs, currentPath, pendFile.val,
                                              in) :
              IF r.res.tag = "again"
              THEN UNCHANGED <<pc, initS, outcome, pendFile, checked, fs>>
              ELSE /\ fs' = r.fs
                   /\ Leave(MenuAfterCheck(r.res, currentPath, pathUpdated,
                                           initS, checked))
    /\ UNCHANGED <<isSaving, defaultDirs, paths, currentPath, fileList,
                   subPaths, printed, pendPath, pathUpdated, fn>>

\* The caller of the example (examples/minimal.rs), which runs the menu
\* with is_saving = true: on Some(path) it writes the file,
\* create_test_file(path)
CallerWrites ==
    /\ pc = "Done"
    /\ isSaving
    /\ run_file_naming_menu_result(outcome).some
    /\ pc' = "Written"
    /\ fs' = fs_write(fs, run_file_naming_menu_result(outcome).val)
    /\ UNCHANGED <<isSaving, defaultDirs, paths, currentPath, initS, fileList,
                   subPaths, printed, pendPath, pendFile, pathUpdated,
                   outcome, lastIn, checked, fn>>

Next ==
    \/ Start
    \/ ScanDir
    \/ ReadLine
    \/ ConfirmCreate
    \/ Collision
    \/ CallerWrites

Spec == Init /\ [][Next]_vars

\* ------------------------------------------------------------------------
\* The functions of the sequential naming on their own: the arguments are
\* drawn in the initial state, the actions apply the functions
\* ------------------------------------------------------------------------

\* base names as the menu passes them: no '.', the separator at the end
FnBases ==
    {<<"_">>, T_run \o <<"_">>, T_notes \o <<"_">>,
     <<"a", "_", "b", "_">>, <<"1", "_">>, <<"1", "2", "3", "_">>,
     T_run \o <<"_", "0", "0", "1", "_">>}

FnCounts == 0..SEQUENTIAL_FILE_MAX_NUMBER

\* names of eligible files (extension DEFAULT_MAP_TYPE), sequential or not
FnNames ==
    {N_run000, N_run001, N_run999, N_notes, N_123, N_a, N_long,
     N_run_(<<"0", "0", "0", "1">>), N_run_(<<"0", "1">>),
     N_run_(<<"a", "b", "c">>), N_run_(<<"+", "1", "2">>),
     T_run \o DotMap, <<"_", "0", "0", "7">> \o DotMap,
     <<"a", "_", "b", "_", "0", "4", "2">> \o DotMap,
     <<"a", "_", "0", "0", "1", ".", "b">> \o DotMap,
     <<"a", ".", "b", "_", "0", "0", "1">> \o DotMap,
     T_run \o <<"0", "0", "1">> \o DotMap}

\* contents of a directory: names of eligible files
FnContents ==
    {{}, {N_run000}, {N_run000, N_run001}, {N_run001}, {N_run998},
     {N_run999}, {N_run000, N_run998}, {N_notes}, {N_run000, N_notes},
     {N_run001, T_notes \o <<"_", "0", "0", "5">> \o DotMap},
     {N_run000, N_a}, {N_a}, {N_run000, N_long}}

\* the directory of the harness and the filesystem holding names in it
FnPath == P_h

FnFs(names) == [dirs |-> {L_cwd, L_h}, files |-> {In(L_h, n) : n \in names}]

FnInputs ==
    {[NoFn EXCEPT !.op = "roundtrip", !.base = b, !.cnt = k] :
        b \in FnBases, k \in FnCounts}
    \cup {[NoFn EXCEPT !.op = "collapse", !.name = n] : n \in FnNames}
    \cup {[NoFn EXCEPT !.op = "derive", !.base = b, !.next = nx, !.files = c] :
        b \in {T_run \o <<"_">>, T_notes \o <<"_">>}, nx \in BOOLEAN,
        c \in FnContents}

InitFn ==
    /\ pc = "Fn"
    /\ fn \in FnInputs
    /\ isSaving = FALSE
    /\ defaultDirs = None
    /\ fs = FsEmpty
    /\ paths = <<>>
    /\ currentPath = <<>>
    /\ initS = <<>>
    /\ fileList = <<>>
    /\ subPaths = <<>>
    /\ printed = NoPrinted
    /\ pendPath = <<>>
    /\ pendFile = None
    /\ pathUpdated = FALSE
    /\ outcome = NoOutcome
    /\ lastIn = NoInput
    /\ checked = NoCheck

FnFrame ==
    UNCHANGED <<pc, isSaving, defaultDirs, paths, currentPath, initS,
                fileList, subPaths, printed, pendPath, pendFile, pathUpdated,
                outcome, fs, lastIn, checked>>

\* get_sequential_name_from_count(base, cnt)
FnExpand ==
    /\ pc = "Fn" /\ fn.op = "roundtrip"
    /\ fn' = [fn EXCEPT !.op = "expanded",
                        !.name = get_sequential_name_from_count(fn.base, fn.cnt)]
    /\ FnFrame

\* is_sequential_name of the expanded name
FnCollapseExpanded ==
    /\ pc = "Fn" /\ fn.op = "expanded"
    /\ fn' = [fn EXCEPT !.op = "recovered",
                        !.res = [tag |-> is_sequential_name(fn.name).tag,
                                 val |-> is_sequential_name(fn.name).val,
                                 kind |-> "none"]]
    /\ FnFrame

\* is_sequential_name(name)
FnCollapse ==
    /\ pc = "Fn" /\ fn.op = "collapse"
    /\ fn' = [fn EXCEPT !.op = "collapsed",
                        !.res = [tag |-> is_sequential_name(fn.name).tag,
                                 val |-> is_sequential_name(fn.name).val,
                                 kind |-> "none"]]
    /\ FnFrame

\* get_sequential_name(path, base, next) in a directory holding fn.files;
\* the read of the directory succeeds
FnDerive ==
    /\ pc = "Fn" /\ fn.op = "derive"
    /\ \E r \in get_sequential_name(FnFs(fn.files), FnPath, fn.base, fn.next)
                \ {Err("Io")} :
         fn' = [fn EXCEPT !.op = "derived", !.res = r]
    /\ FnFrame

NextFn ==
    \/ FnExpand
    \/ FnCollapseExpanded
    \/ FnCollapse
    \/ FnDerive

SpecFn == InitFn /\ [][NextFn]_vars

\* ------------------------------------------------------------------------
\* Properties
\* ------------------------------------------------------------------------

EndsWith(s, suffix) ==
    /\ Len(s) >= Len(suffix)
    /\ Slice(s, Len(s) - Len(suffix), Len(s)) = suffix

Succeeded == pc \in {"Done", "Written"} /\ outcome.kind = "Ok"

\* the last read was the line t (after trimming) of a dialog
Answered(t) == lastIn.kind = "line" /\ trim(lastIn.text) = t

\* C1: whenever a session ends in success, the file name of the returned
\* path has at most MAX_FILE_NAME_CHARS characters, on every path to
\* success (collision choice 'c' included).
C1_ReturnedNameWithinMaxLen ==
    Succeeded => Len(outcome.file) <= MAX_FILE_NAME_CHARS

\* C2: whenever a session ends in success, the file name of the returned
\* path ends in '.' followed by DEFAULT_MAP_TYPE, and so does the returned
\* path; a name with another extension is never returned.
C2_ReturnedNameHasExtension ==
    Succeeded =>
        /\ EndsWith(outcome.file, DotMap)
        /\ Extension(outcome.file).some
              => Extension(outcome.file).ext = DEFAULT_MAP_TYPE
        /\ EndsWith(outcome.path, DotMap)
        /\ run_file_naming_menu_result(outcome) = Some(outcome.path)

\* C2 witness: a session that succeeded with the sequential name derived by
\* collision choice 'c'
C2_Witness ==
    /\ Succeeded
    /\ Answered(<<"c">>)
    /\ outcome.file # checked.file

\* C3: deriving a sequential name never crashes because of the names of the
\* files in the directory: no session ends in a panic.
C3_NeverCrashes == pc # "Crashed"

\* C4: need-new-name is never the outcome of a session.  A session that has
\* returned has a path (Some) or one of the aborts, reported as None; and
\* every step in which need-new-name arises (the confirmation declined,
\* cancelled or failed, collision choice 'n' or cancel-line, a load of a
\* missing file) leaves the menu at a prompt with no outcome.
C4_ReturnedOutcomes ==
    pc \in {"Done", "Written"} =>
        /\ outcome.kind \in {"Ok", "ManuallyTerminated", "FileDeletion",
                             "InvalidNameTooLong", "InvalidSequentialName",
                             "Io", "Cmd"}
        /\ run_file_naming_menu_result(outcome).some <=> outcome.kind = "Ok"

AtPrompt == pc \in {"ScanDir", "ReadLine"} /\ outcome = NoOutcome

C4_NeedNewNameStep ==
    /\ (pc = "ConfirmCreate" /\ ask_yes_no(lastIn') = Err("NeedNewName"))
          => (pc' = "ReadLine" /\ outcome' = NoOutcome)
    /\ (pc = "Collision"
          /\ (lastIn'.kind = "Interrupted"
                \/ (lastIn'.kind = "line" /\ trim(lastIn'.text) = <<"n">>)))
          => AtPrompt'
    /\ (pc \in {"ReadLine", "ConfirmCreate"}
          /\ checked'.called /\ ~checked'.existed /\ ~isSaving)
          => AtPrompt'

C4_NeedNewNameNeverSurfaces ==
    [](C4_ReturnedOutcomes) /\ [][C4_NeedNewNameStep]_vars

\* C4 witness: collision choice 'n' has sent the menu back to the scan of
\* the directory
C4_Witness ==
    /\ pc = "ScanDir"
    /\ Answered(<<"n">>)
    /\ isSaving /\ checked.called /\ checked.existed
    /\ outcome = NoOutcome

\* the counter of a sequential name of base b (b ends in the separator):
\* the name is b, three digits, '.', DEFAULT_MAP_TYPE
IsSequentialOf(name, b) ==
    /\ Len(name) = Len(b) + SuffixLen
    /\ Slice(name, 0, Len(b)) = b
    /\ \A i \in 1..SEQUENTIAL_FILE_PADDING_LEN : name[Len(b) + i] \in Digits
    /\ Slice(name, Len(b) + SEQUENTIAL_FILE_PADDING_LEN, Len(name)) = DotMap

CounterOf(name, b) ==
    DecimalValue(Slice(name, Len(b), Len(b) + SEQUENTIAL_FILE_PADDING_LEN))

\* C5: for every base and directory content, get_sequential_name returns
\* the name of counter max + 1 (next) or max (last) over the files of that
\* base, counter 0 when there is none, and fails with the overflow error
\* exactly when the counter would exceed SEQUENTIAL_FILE_MAX_NUMBER.
C5_DerivedCounter ==
    fn.op = "derived" =>
        LET cs  == {CounterOf(n, fn.base) :
                        n \in {m \in fn.files : IsSequentialOf(m, fn.base)}}
            cnt == IF cs = {} THEN 0
                   ELSE IF fn.next THEN MaxOf(cs) + 1 ELSE MaxOf(cs)
        IN  fn.res = IF cnt > SEQUENTIAL_FILE_MAX_NUMBER
                     THEN Err("InvalidSequentialName")
                     ELSE Ok(get_sequential_name_from_count(fn.base, cnt))

\* C6: for every base B the menu passes and every counter k in 0..999,
\* is_sequential_name(get_sequential_name_from_count(B, k)) is B.
C6_RoundTrip ==
    fn.op = "recovered" => (fn.res.tag = "ok" /\ fn.res.val = fn.base)

\* C6 witness: the round trip of the largest counter for a base that itself
\* holds a sequential suffix
C6_Witness ==
    /\ fn.op = "recovered"
    /\ fn.cnt = SEQUENTIAL_FILE_MAX_NUMBER
    /\ fn.base = T_run \o <<"_", "0", "0", "1", "_">>
    /\ fn.name = T_run \o <<"_", "0", "0", "1", "_", "9", "9", "9">> \o DotMap

\* the text of a name before its extension '.' DEFAULT_MAP_TYPE
StemOf(name) == Slice(name, 0, Len(name) - Len(DotMap))

\* a stem that ends in exactly three digits preceded by the separator
EndsInCounter(stem) ==
    /\ Len(stem) >= SEQUENTIAL_FILE_PADDING_LEN + 1
    /\ stem[Len(stem) - SEQUENTIAL_FILE_PADDING_LEN] = SEQUENTIAL_NAMING_CHAR
    /\ \A i \in 1..SEQUENTIAL_FILE_PADDING_LEN :
          stem[Len(stem) - SEQUENTIAL_FILE_PADDING_LEN + i] \in Digits

\* C7 (its clause on the other names): a file name whose text before the
\* extension does not end in three digits preceded by the separator, such
\* as 123.map, is returned unchanged by is_sequential_name.
C7_OtherNamesUnchanged ==
    (fn.op = "collapsed" /\ ~EndsInCounter(StemOf(fn.name)))
        => (fn.res.tag = "ok" /\ fn.res.val = fn.name)

\* the largest index the index-space property is evaluated for
MaxIndex == 7

\* the directory path the parser yields for default directory d
WithSlash(d) == IF LastChar(d) = "/" THEN d ELSE d \o <<"/">>

\* C8: the index space of the listing is contiguous and non-overlapping.
\* At every prompt, for the snapshot D, S, F of the last scan, index
\* i < |D| selects D[i], |D| <= i < |D|+|S| selects S[i-|D|],
\* |D|+|S| <= i < |D|+|S|+|F| selects F[i-|D|-|S|], every printed number
\* selects the entry it is printed next to, and a larger index selects
\* nothing.
C8_IndexSpace ==
    pc = "ReadLine" =>
        LET nD == Len(paths)
            nS == Len(subPaths)
            nF == Len(fileList)
            sel(i) == parse_menu_file(currentPath, DecimalText(i), paths,
                                      subPaths, fileList)
        IN  /\ \A i \in 0..MaxIndex : \A si \in {sel(i)} :
                 /\ si.tag = "ok"
                 /\ i < nD =>
                      /\ si.path = Some(WithSlash(paths[i + 1]))
                      /\ si.file = None
                 /\ (nD <= i /\ i < nD + nS) =>
                      /\ si.path = Some(currentPath \o subPaths[i - nD + 1])
                      /\ si.file = None
                 /\ (nD + nS <= i /\ i < nD + nS + nF) =>
                      /\ si.path = None
                      /\ si.file =
                           Some(is_sequential_name(fileList[i - nD - nS + 1]).val)
                 /\ i >= nD + nS + nF =>
                      (si.path = None /\ si.file = None)
            /\ \A k \in 1..nD : printed.paths[k] = [num |-> k - 1,
                                                    opt |-> paths[k]]
            /\ \A k \in 1..nS : printed.subs[k] = [num |-> nD + k - 1,
                                                   opt |-> subPaths[k]]
            /\ \A k \in 1..nF : printed.files[k] = [num |-> nD + nS + k - 1,
                                                    opt |-> fileList[k]]
            /\ Len(printed.paths) = nD /\ Len(printed.subs) = nS
            /\ Len(printed.files) = nF

\* C8, the step of an index beyond the listing: no directory becomes
\* current, no file is resolved, nothing changes on the filesystem and the
\* menu prompts again (when the current directory exists: after a new scan;
\* when it does not, while saving: through the creation prompt, whose line
\* editor may fail to start)
C8_OutOfRangeStep ==
    (/\ pc = "ReadLine"
     /\ lastIn'.kind = "line"
     /\ parse_usize(NormalizeLine(lastIn'.text)).ok
     /\ parse_usize(NormalizeLine(lastIn'.text)).val
           >= Len(paths) + Len(subPaths) + Len(fileList))
    => /\ currentPath' = currentPath
       /\ fs' = fs
       /\ pendFile' = None
       /\ ~checked'.called
       /\ \/ pc' \in {"ScanDir", "ReadLine", "ConfirmCreate"}
                /\ outcome' = NoOutcome
          \/ pc' = "Done" /\ outcome' = ErrOutcome("Cmd")
       /\ check_dir_exists(fs, currentPath) => pc' = "ScanDir"

C8_ContiguousIndexSpace == [](C8_IndexSpace) /\ [][C8_OutOfRangeStep]_vars

\* C8 witness: with two default directories, one sub-directory and three
\* files listed, index 5 has selected the third file
C8_Witness ==
    /\ Len(paths) = 2 /\ Len(subPaths) = 1 /\ Len(fileList) = 3
    /\ lastIn = LineIn(<<"5">>)
    /\ fileList[3] = N_notes
    /\ Succeeded
    /\ outcome.file = N_notes

\* C9: the collision dialog is presented if and only if the operation is a
\* save and the name exists as a file in the current directory.  In every
\* step that calls check_file_exists: the existence it tests is that of the
\* name in the current directory; save and existing gives the dialog (its
\* line editor may fail to start); load and missing gives a prompt again;
\* the two other cases return the name.  No other step opens the dialog.
C9_DialogStep ==
    LET calls == pc \in {"ReadLine", "ConfirmCreate"} /\ checked'.called
    IN  /\ (pc # "Collision" /\ pc' = "Collision")
              => (calls /\ isSaving /\ checked'.existed
                    /\ pendFile' = Some(checked'.file))
        /\ calls =>
              /\ checked'.path = currentPath'
              /\ checked'.existed
                    <=> Append(Components(currentPath'), checked'.file)
                            \in fs'.files
        /\ (calls /\ isSaving /\ checked'.existed)
              => \/ pc' = "Collision" /\ outcome' = NoOutcome
                 \/ pc' = "Done" /\ outcome' = ErrOutcome("Cmd")
        /\ (calls /\ ~isSaving /\ ~checked'.existed) => AtPrompt'
        /\ (calls /\ (isSaving # checked'.existed))
              => /\ pc' = "Done"
                 /\ outcome' = OkOutcome(currentPath' \o checked'.file,
                                         checked'.file)

C10_ReplaceStep ==
    (/\ pc = "Collision"
     /\ lastIn'.kind = "line" /\ trim(lastIn'.text) = <<"r">>
     /\ outcome' # ErrOutcome("Io"))
    => /\ PathJoin(currentPath, pendFile.val) \in fs.files
       /\ fs'.files = fs.files \ {PathJoin(currentPath, pendFile.val)}
       /\ fs'.dirs = fs.dirs
       /\ pc' = "Done"
       /\ outcome' = OkOutcome(currentPath \o pendFile.val, pendFile.val)

\* C10, after the caller has written the returned path: the current
\* directory holds the file of the requested name
C10_ReplacedFileInCurrentDir ==
    (pc = "Written" /\ Answered(<<"r">>))
    => Append(Components(currentPath), outcome.file) \in fs.files

\* C10 for a current directory written with its trailing '/'
C10_ReplacedFileWithSlash ==
    (pc = "Written" /\ Answered(<<"r">>) /\ LastChar(currentPath) = "/")
    => Append(Components(currentPath), outcome.file) \in fs.files

\* the names get_sequential_name derives, in next mode, for the stem of
\* file_name followed by the separator
NextSequentialNames(f, path, file_name) ==
    {r.val : r \in {q \in get_sequential_name(f, path,
                              StemOf(file_name) \o <<SEQUENTIAL_NAMING_CHAR>>,
                              TRUE) : q.tag = "ok"}}

\* a step of the collision dialog answered t that ends the session in
\* success
AnsweredOk(t) ==
    /\ pc = "Collision"
    /\ lastIn'.kind = "line" /\ trim(lastIn'.text) = t
    /\ pc' = "Done" /\ outcome'.kind = "Ok"

\* C11: collision choice 'm'.  The step that succeeds renames the existing
\* file, inside the current directory, to the next sequential name of the
\* requested name's stem plus the separator; the target did not exist, no
\* other file changes, the number of files is unchanged, the requested name
\* is free afterwards and is returned unchanged.
C11_MoveStep ==
    AnsweredOk(<<"m">>) =>
        LET dir == Components(currentPath)
            old == Append(dir, pendFile.val)
        IN  /\ old \in fs.files
            /\ old \notin fs'.files
            /\ \E n \in NextSequentialNames(fs, currentPath, pendFile.val) :
                  /\ Append(dir, n) \notin fs.files
                  /\ fs'.files = (fs.files \ {old}) \cup {Append(dir, n)}
            /\ Cardinality(fs'.files) = Cardinality(fs.files)
            /\ fs'.dirs = fs.dirs
            /\ outcome'.file = pendFile.val

C11_MoveRenamesInCurrentDir == [][C11_MoveStep]_vars

\* C11 for a current directory written with its trailing '/'
C11_MoveWithSlash ==
    [][LastChar(currentPath) = "/" => C11_MoveStep]_vars

\* C12: collision choice 'c'.  The step leaves the filesystem unchanged;
\* when it succeeds it returns, instead of the requested name, the next
\* sequential name of the requested stem, and that name is not the name of
\* a file of the current directory.
C12_CopyStep ==
    /\ (pc = "Collision" /\ lastIn'.kind = "line"
          /\ trim(lastIn'.text) = <<"c">>) => fs' = fs
    /\ AnsweredOk(<<"c">>) =>
          /\ outcome'.file \in NextSequentialNames(fs, currentPath,
                                                   pendFile.val)
          /\ IsSequentialOf(outcome'.file,
                 StemOf(pendFile.val) \o <<SEQUENTIAL_NAMING_CHAR>>)
          /\ outcome'.file # pendFile.val
          /\ outcome'.path = currentPath \o outcome'.file
          /\ Append(Components(currentPath), outcome'.file) \notin fs'.files
          /\ Append(Components(currentPath), pendFile.val) \in fs'.files

C12_CopyLeavesFilesystem == [][C12_CopyStep]_vars

\* C12 witness: in a directory holding run.map and run_000.map, a save of
\* run.map answered 'c' has returned run_001.map
C12_Witness ==
    /\ pc = "Done"
    /\ Answered(<<"c">>)
    /\ checked.file = T_run \o DotMap
    /\ outcome = OkOutcome(currentPath \o N_run001, N_run001)
    /\ In(Components(currentPath), N_run000) \in fs.files
    /\ In(Components(currentPath), T_run \o DotMap) \in fs.files

\* the first default directory, current when the session starts
InitialDirectory == init_default_paths(defaultDirs).default

\* C13: the initial configured directory is created, recursively, if it is
\* absent, before any listing: at every prompt, the first one included, the
\* first default directory exists, in save mode and in load mode.
C13_InitialDirectoryExists ==
    pc = "ReadLine" => check_dir_exists(fs, InitialDirectory)

\* C13 as amended: nothing is created before the first listing.  The start
\* of the session and the scans leave the filesystem unchanged; a directory
\* comes to exist only in the step of the confirmation prompt, in save mode,
\* that reads y or yes, which creates the selected directory with its
\* ancestors and makes it current; in load mode the directories never
\* change.
C13_CreationStep ==
    /\ pc \in {"Start", "ScanDir", "ReadLine"} => fs'.dirs = fs.dirs
    /\ pc \in {"Start", "ScanDir"} => fs' = fs
    /\ ~isSaving => fs'.dirs = fs.dirs
    /\ fs'.dirs # fs.dirs =>
          /\ pc = "ConfirmCreate"
          /\ isSaving
          /\ lastIn'.kind = "line"
          /\ trim(lastIn'.text) \in {<<"y">>, <<"y", "e", "s">>}
          /\ ~check_dir_exists(fs, pendPath)
          /\ fs'.dirs = fs.dirs \cup Prefixes(Components(pendPath))
          /\ currentPath' = pendPath

C13_CreatedOnlyOnConfirmation == [][C13_CreationStep]_vars

\* C13 witness: the first prompt of a session whose first default
\* directory is absent
C13_Witness ==
    /\ pc = "ReadLine"
    /\ lastIn = NoInput
    /\ ~pathUpdated
    /\ currentPath = InitialDirectory
    /\ ~check_dir_exists(fs, InitialDirectory)
    /\ fileList = <<>> /\ subPaths = <<>>

\* What the step that handles the file fragment frag leaves (frag does not
\* end in the separator, so it is not expanded first).  No '.': the
\* configured extension is appended and the name goes on, in the same step,
\* to the length check and check_file_exists.  Text after the first '.'
\* other than DEFAULT_MAP_TYPE: nothing is checked, returned or written, the seed is
\* the text before the '.' with the configured extension, and the menu
\* prompts again.
C14_Handled(frag) ==
    \A sp \in {split_once(frag, ".")} :
        IF ~sp.some
        THEN /\ \/ /\ checked'.called
                   /\ checked'.file = frag \o DotMap
                \/ /\ Len(frag \o DotMap) > MAX_FILE_NAME_CHARS
                   /\ pc' = "Done"
                   /\ outcome' = ErrOutcome("InvalidNameTooLong")
             /\ (isSaving /\ checked'.called /\ ~checked'.existed)
                   => /\ pc' = "Done"
                      /\ outcome' = OkOutcome(currentPath' \o frag \o DotMap,
                                              frag \o DotMap)
        ELSE sp.tail # DEFAULT_MAP_TYPE
                => /\ ~checked'.called
                   /\ AtPrompt'
                   /\ initS' = sp.head \o DotMap
                   /\ pendFile' = None
                   /\ fs'.files = fs.files

\* C14: extension handling of a file fragment, in the step of the main
\* prompt whose directory exists and in the step of the confirmation prompt
\* that creates the directory.
C14_ExtensionStep ==
    /\ (pc = "ReadLine" /\ lastIn'.kind = "line")
          => \A pr \in {parse_menu_file(currentPath,
                             NormalizeLine(lastIn'.text), paths, subPaths,
                             fileList)} :
                (/\ pr.tag = "ok"
                 /\ check_dir_exists(fs, IF pr.path.some THEN pr.path.val
                                         ELSE currentPath)
                 /\ pr.file.some
                 /\ LastChar(pr.file.val) # SEQUENTIAL_NAMING_CHAR)
                   => C14_Handled(pr.file.val)
    /\ (/\ pc = "ConfirmCreate"
        /\ fs'.dirs # fs.dirs
        /\ pendFile.some
        /\ LastChar(pendFile.val) # SEQUENTIAL_NAMING_CHAR)
          => C14_Handled(pendFile.val)

C14_ExtensionHandling == [][C14_ExtensionStep]_vars

\* C14 witness: the line notes.txt has seeded the next prompt with
\* notes.map
C14_Witness ==
    /\ pc = "ScanDir"
    /\ lastIn = LineIn(N_notesTxt)
    /\ initS = N_notes
    /\ outcome = NoOutcome

\* C14, the fragment without extension: a save of notes has returned
\* notes.map
C14_AppendedReached ==
    /\ Succeeded
    /\ isSaving
    /\ lastIn = LineIn(T_notes)
    /\ outcome.file = N_notes

\* C15 (its clause on a typed directory fragment): the directory a typed
\* line selects is current directory + fragment, the fragment being the
\* line when it ends in '/' and else its part up to the last '/'.  In the
\* step that reads the line, that directory becomes current when it exists;
\* when it does not, the current directory stays and, while saving, it is
\* the directory offered for creation.  (Stated for a current directory
\* written with its trailing '/'.)
C15_DirectoryStep ==
    (pc = "ReadLine" /\ lastIn'.kind = "line" /\ LastChar(currentPath) = "/")
    => \A d \in {check_if_path_or_file(NormalizeLine(lastIn'.text)).path} :
          d.some =>
             /\ check_dir_exists(fs, currentPath \o d.val)
                   => currentPath' = currentPath \o d.val
             /\ ~check_dir_exists(fs, currentPath \o d.val)
                   => currentPath' = currentPath
             /\ pc' = "ConfirmCreate" => pendPath' = currentPath \o d.val

C16_Discarded ==
    /\ pendFile' = None
    /\ ~checked'.called
    /\ outcome' = NoOutcome
    /\ fs' = fs
    /\ currentPath' = currentPath

\* C16: the selected directory does not exist.  Save mode: the step of the
\* main prompt goes to the confirmation prompt (whose line editor may fail
\* to start) with nothing changed; y or yes creates the directory with its
\* ancestors and makes it current (unless create_dir_all fails); a decline
\* (n, no, CTRL+C, a read error) creates nothing, keeps the current
\* directory, drops the file part of the line and goes back to the main
\* prompt.  Load mode: no confirmation prompt, nothing created, the current
\* directory kept, the file part dropped, the main prompt again.
C16_MissingDirectoryStep ==
    /\ (pc = "ReadLine" /\ lastIn'.kind = "line")
          => \A pr \in {parse_menu_file(currentPath,
                            NormalizeLine(lastIn'.text), paths, subPaths,
                            fileList)} :
               (/\ pr.tag = "ok"
                /\ ~check_dir_exists(fs, IF pr.path.some THEN pr.path.val
                                         ELSE currentPath))
               => /\ fs' = fs
                  /\ currentPath' = currentPath
                  /\ ~checked'.called
                  /\ IF isSaving
                     THEN \/ /\ pc' = "ConfirmCreate"
                             /\ outcome' = NoOutcome
                             /\ pendPath' = (IF pr.path.some THEN pr.path.val
                                             ELSE currentPath)
                          \/ /\ pc' = "Done"
                             /\ outcome' = ErrOutcome("Cmd")
                     ELSE pc' = "ReadLine" /\ C16_Discarded
    /\ pc' = "ConfirmCreate" => (isSaving /\ pc \in {"ReadLine", "ConfirmCreate"})
    /\ (pc = "ConfirmCreate" /\ lastIn'.kind = "line"
          /\ trim(lastIn'.text) \in {<<"y">>, <<"y", "e", "s">>})
          => \/ pc' = "Done" /\ outcome' = ErrOutcome("Io") /\ fs' = fs
             \/ /\ fs'.dirs = fs.dirs \cup Prefixes(Components(pendPath))
                /\ currentPath' = pendPath
                /\ fs'.files = fs.files
                /\ check_dir_exists(fs', currentPath')
    /\ (pc = "ConfirmCreate"
          /\ \/ lastIn'.kind \in {"Interrupted", "Error"}
             \/ /\ lastIn'.kind = "line"
                /\ trim(lastIn'.text) \in {<<"n">>, <<"n", "o">>})
          => pc' = "ReadLine" /\ C16_Discarded

C16_MissingDirectory == [][C16_MissingDirectoryStep]_vars

\* C16 witness: in save mode, a directory that did not exist has been
\* created on confirmation and is the current directory
C16_Witness ==
    /\ pc = "ScanDir"
    /\ isSaving
    /\ Answered(<<"y">>)
    /\ currentPath = <<"n", "/">>
    /\ pendPath = currentPath
    /\ check_dir_exists(fs, currentPath)

\* C16, the decline: the file part of the line n/notes was dropped
C16_DeclineReached ==
    /\ pc = "ReadLine"
    /\ isSaving
    /\ Answered(<<"n", "o">>)
    /\ pendPath = <<"n", "/">>
    /\ pendFile = None
    /\ ~check_dir_exists(fs, pendPath)

\* a step of the confirmation prompt that reads a line other than y, yes,
\* n, no (after trimming)
C17_OtherLine ==
    /\ pc = "ConfirmCreate"
    /\ lastIn'.kind = "line"
    /\ trim(lastIn'.text) \notin {<<"y">>, <<"y", "e", "s">>, <<"n">>,
                                  <<"n", "o">>}

\* C17: in the confirmation prompt, a line other than y, yes, n, no ends the
\* prompt with need-new-name, like a decline: after that one line the menu
\* is back at the main prompt.
C17_OtherLineDeclinesStep ==
    C17_OtherLine => (pc' = "ReadLine" /\ outcome' = NoOutcome)

C17_OtherLineDeclines == [][C17_OtherLineDeclinesStep]_vars

\* C17 as amended: a line other than y, yes, n, no keeps the confirmation
\* prompt open, with nothing changed, and another line is read; the prompt
\* ends with need-new-name (back at the main prompt, nothing created) only
\* for n, no, CTRL+C and a read error.
C17_OtherLineAsksAgainStep ==
    /\ C17_OtherLine
          => /\ pc' = "ConfirmCreate"
             /\ UNCHANGED <<initS, outcome, pendFile, pendPath, checked,
                            currentPath, pathUpdated, fs, paths, fileList,
                            subPaths, printed>>
    /\ (pc = "ConfirmCreate" /\ pc' = "ReadLine")
          => /\ \/ lastIn'.kind \in {"Interrupted", "Error"}
                \/ /\ lastIn'.kind = "line"
                   /\ trim(lastIn'.text) \in {<<"n">>, <<"n", "o">>}
             /\ fs' = fs
             /\ outcome' = NoOutcome
    /\ (pc = "ConfirmCreate" /\ lastIn'.kind = "Error")
          => (pc' = "ReadLine" /\ outcome' = NoOutcome /\ fs' = fs)

C17_OtherLineAsksAgain == [][C17_OtherLineAsksAgainStep]_vars

\* C17 witness: the confirmation prompt has read the line x and is still
\* open
C17_Witness ==
    /\ pc = "ConfirmCreate"
    /\ Answered(<<"x">>)
    /\ outcome = NoOutcome

\* C18: an input line that yields neither a directory nor a file selection
\* (the empty line, an index beyond the listing) clears the seed and the
\* menu prompts again in the inner loop: the next line is read against the
\* same listing, without a new scan of the directory.
C18_NoSelectionStep ==
    (pc = "ReadLine" /\ lastIn'.kind = "line")
    => \A pr \in {parse_menu_file(currentPath, NormalizeLine(lastIn'.text),
                                  paths, subPaths, fileList)} :
          (pr.tag = "ok" /\ ~pr.path.some /\ ~pr.file.some)
          => /\ pc' = "ReadLine"
             /\ initS' = <<>>
             /\ outcome' = NoOutcome
             /\ UNCHANGED <<currentPath, fileList, subPaths, printed, fs>>

C18_NoSelectionStaysInInnerLoop == [][C18_NoSelectionStep]_vars

\* C19: a fault of the line-input device (a read error other than CTRL+C
\* and CTRL+D) at the main prompt or in the collision dialog ends the
\* session: it returns an error, the caller gets no selection, and no
\* further line is read.
C19_ReadFaultStep ==
    (pc \in {"ReadLine", "Collision"} /\ lastIn'.kind = "Error")
    => /\ pc' = "Done"
       /\ outcome'.kind \in {"Io", "Cmd"}
       /\ run_file_naming_menu_result(outcome') = None

C19_ReadFaultIsFatal == [][C19_ReadFaultStep]_vars

\* C20: at every point where a line is read (main prompt, collision dialog,
\* confirmation prompt), CTRL+D ends the session in that step with the
\* manually-terminated outcome: the caller gets no selection, the
\* filesystem is as it was before the signal, and the session takes no
\* further step (no line is read, nothing is written).
C20_TerminateStep ==
    /\ (pc \in {"ReadLine", "Collision", "ConfirmCreate"}
          /\ lastIn'.kind = "Eof")
          => /\ pc' = "Done"
             /\ outcome' = ErrOutcome("ManuallyTerminated")
             /\ run_file_naming_menu_result(outcome') = None
             /\ fs' = fs
    /\ outcome.kind # "ManuallyTerminated"

C20_Terminated ==
    outcome.kind = "ManuallyTerminated"
        => (pc = "Done" /\ lastIn.kind = "Eof")

C20_TerminateSignalEndsSession ==
    [](C20_Terminated) /\ [][C20_TerminateStep]_vars

\* C20 witness: CTRL+D in the collision dialog has ended the session
C20_Witness ==
    /\ pc = "Done"
    /\ outcome = ErrOutcome("ManuallyTerminated")
    /\ lastIn = SignalIn("Eof")
    /\ isSaving
    /\ checked.called /\ checked.existed
    /\ Append(Components(currentPath), checked.file) \in fs.files

\* C20 at the confirmation prompt: CTRL+D has ended the session while a
\* directory that does not exist was offered for creation
C20_ConfirmationReached ==
    /\ pc = "Done"
    /\ outcome = ErrOutcome("ManuallyTerminated")
    /\ pendPath # <<>>
    /\ ~check_dir_exists(fs, pendPath)

\* C21: the listing snapshot is never stale.  Whenever a line is about to
\* be read at the main prompt, the file and sub-directory snapshots (and
\* the numbers printed) are a listing of the current directory as it is;
\* and a step that changes the current directory, by selection or by
\* creation, never leads to the main prompt without a new scan.
C21_SnapshotOfCurrent ==
    pc = "ReadLine" =>
        /\ fileList \in Orders(get_file_list(fs, currentPath))
        /\ subPaths \in Orders(get_dir_list(fs, currentPath))
        /\ printed = print_menu_options(paths, subPaths, fileList)

C21_ChangeStep ==
    /\ (pc # "Start" /\ currentPath' # currentPath)
          => pc' \in {"ScanDir", "Collision", "Done", "Crashed"}
    /\ (pc = "Collision" /\ pc' \notin {"Collision", "Done", "Crashed"})
          => pc' = "ScanDir"
    /\ fs' # fs => pc' # "ReadLine"

C21_SnapshotNeverStale ==
    [](C21_SnapshotOfCurrent) /\ [][C21_ChangeStep]_vars

\* C21 witness: after a change of directory to w/ and a collision dialog
\* left with 'n', the main prompt reads against the listing of w/
C21_Witness ==
    /\ pc = "ReadLine"
    /\ currentPath = P_w
    /\ InitialDirectory = P_h
    /\ checked.called /\ checked.path = P_w /\ checked.existed
    /\ fileList # <<>>
    /\ \A k \in 1..Len(fileList) :
          Append(Components(P_w), fileList[k]) \in fs.files

\* C22: in load mode no step of the session changes the filesystem: no
\* directory is created, no file is deleted, none is renamed, whatever the
\* session returns.
C22_LoadStep == ~isSaving => fs' = fs

C22_LoadLeavesFilesystem == [][C22_LoadStep]_vars

\* C22 witness: in load mode a line naming a directory that does not exist
\* was read, and the menu is at the main prompt with nothing created
C22_Witness ==
    /\ ~isSaving
    /\ pc = "ReadLine"
    /\ lastIn = LineIn(<<"n", "/">> \o T_notes)
    /\ ~check_dir_exists(fs, <<"n", "/">>)
    /\ \E c \in InitConfigs : fs = c.fs

\* C22 at the end of a session: a load has returned an existing name
C22_LoadedReached ==
    /\ ~isSaving
    /\ pc = "Done"
    /\ outcome.kind = "Ok"
    /\ checked.existed
    /\ \E c \in InitConfigs : fs = c.fs

\* C23: the path returned on success denotes the file of the returned name
\* directly inside the current directory, and, when the returned name is
\* the one check_file_exists examined, the very location it examined; for
\* every current directory of a session, a first default directory without
\* a trailing '/' included.
C23_ReturnedPathInCurrentDir ==
    Succeeded =>
        /\ Components(outcome.path)
              = Append(Components(currentPath), outcome.file)
        /\ (checked.called /\ checked.file = outcome.file)
              => Components(outcome.path)
                    = PathJoin(checked.path, checked.file)

\* C23 for a current directory written with its trailing '/'
C23_ReturnedPathWithSlash ==
    (Succeeded /\ LastChar(currentPath) = "/")
    => Components(outcome.path)
          = Append(Components(currentPath), outcome.file)

\* the counters of the files of directory path that are sequential names
\* of base b
CountersIn(f, path, b) ==
    {CounterOf(n, b) : n \in {m \in get_file_list(f, path) :
                                 IsSequentialOf(m, b)}}

\* What the step that selects the listed file name by its index leaves.
\* name not sequential: exactly that name goes to check_file_exists (a load
\* returns it; a save finds it existing).  name sequential of base b: a
\* load returns the highest-numbered file of base b, a save returns the
\* next unused name of base b without the collision dialog (or the
\* overflow error past SEQUENTIAL_FILE_MAX_NUMBER); the read of the
\* directory may fail.
C24_Selected(name, exclude) ==
    IF name \in exclude THEN TRUE
    ELSE IF ~EndsInCounter(StemOf(name))
    THEN /\ checked'.called
         /\ checked'.path = currentPath
         /\ checked'.file = name
         /\ ~isSaving => /\ pc' = "Done"
                         /\ outcome' = OkOutcome(currentPath \o name, name)
    ELSE \A b \in {Slice(name, 0, Len(name) - SuffixLen)} :
         \A cs \in {CountersIn(fs, currentPath, b)} :
            \/ pc' = "Done" /\ outcome' = ErrOutcome("Io")
            \/ /\ ~isSaving
               /\ pc' = "Done"
               /\ outcome'.kind = "Ok"
               /\ outcome'.file
                     = get_sequential_name_from_count(b, MaxOf(cs))
               /\ Append(Components(currentPath), outcome'.file)
                     \in fs.files
            \/ /\ isSaving
               /\ MaxOf(cs) < SEQUENTIAL_FILE_MAX_NUMBER
               /\ pc' = "Done"
               /\ outcome'.kind = "Ok"
               /\ outcome'.file
                     = get_sequential_name_from_count(b, MaxOf(cs) + 1)
               /\ Append(Components(currentPath), outcome'.file)
                     \notin fs.files
            \/ /\ isSaving
               /\ MaxOf(cs) = SEQUENTIAL_FILE_MAX_NUMBER
               /\ pc' = "Done"
               /\ outcome' = ErrOutcome("InvalidSequentialName")

C24_IndexStep(exclude) ==
    (pc = "ReadLine" /\ lastIn'.kind = "line")
    => \A n \in {parse_usize(NormalizeLine(lastIn'.text))} :
          (/\ n.ok
           /\ n.val >= Len(paths) + Len(subPaths)
           /\ n.val < Len(paths) + Len(subPaths) + Len(fileList))
          => C24_Selected(fileList[n.val - Len(paths) - Len(subPaths) + 1],
                          exclude)

\* C24: selecting a listed file by its numeric index.  A file that is not
\* sequential resolves to exactly that name; a sequential file is collapsed
\* to its base and expanded with the mode of the session.
C24_SelectionByIndex == [][C24_IndexStep({})]_vars

\* C24 for every listed file but the one whose stem is three digits
C24_SelectionByIndexBut123 == [][C24_IndexStep({N_123})]_vars

====
